---- MODULE Spec2Model ----
(***************************************************************************)
(* Goal pacing of the sales dashboard backend (Node.js + Express + pg).    *)
(*                                                                         *)
(* Three deployed variants of backend/server.js are modelled:              *)
(*   "part_000"  per-seller monthly quota, calcularMetaDia, manual daily   *)
(*               override table `metas` (src/unnamed/part_000)             *)
(*   "part_003"  one global monthly quota (metas_gerais),                  *)
(*               calcularMetaDinamica (src/unnamed/part_003)               *)
(*   "server_js" override or meta_padrao, no quota                         *)
(*               (src/backend/server.js, second server)                    *)
(*                                                                         *)
(* Specifications                                                          *)
(*   Spec          the routes of the variants, interleaved                 *)
(*   SpecCal       the date and pacing functions on drawn inputs           *)
(*   SpecMetas     concurrent POST /api/metas requests                     *)
(*   SpecEscritas  the routes that write sellers and sales, with negative  *)
(*                 amounts, sale edits and deletes                         *)
(*   SpecRitmo     a seller who sells the target of every selling day      *)
(*                                                                         *)
(* Conventions                                                             *)
(*   - a date string "YYYY-MM-DD" of 2024 is its day number, 1 = 01-01     *)
(*   - a JS Date object is its local wall-clock time in hours,             *)
(*     day * 24 + hour of day; tz is the UTC offset of the process (hours) *)
(*   - money is an integer amount; a quotient of the pacing division is    *)
(*     the exact fraction [num, den] (IEEE rounding of doubles is not      *)
(*     modelled)                                                           *)
(***************************************************************************)
EXTENDS Integers, Sequences, FiniteSets, TLC

VARIABLES
    variant,        \* which server file is deployed
    tz,             \* UTC offset (hours) of the server process
    hoje,           \* current local calendar day (clock)
    vendedoras,     \* table vendedoras: id -> row
    vendas,         \* table vendas: set of rows
    vendas_id_seq,  \* sequence of vendas.id (SERIAL): the last value drawn
    metas,          \* table metas (manual daily override): set of rows
    metas_gerais,   \* table metas_gerais (part_003): <<>> or <<meta_mensal>>
    req,            \* the GET /api/metas/:data request in flight
    resposta,       \* the response of the goal route (GET) a client holds; status 0
                    \* from the start of a request, and once a write is accepted
    cal             \* harness of the date helper (specification SpecCal)

vars == <<variant, tz, hoje, vendedoras, vendas, vendas_id_seq, metas, metas_gerais, req, resposta, cal>>

-----------------------------------------------------------------------------
(* Bounds of the model *)

\* most rows the vendas table is ever given (inserts)
MaxVendas == 2

\* UTC offsets of the server process: America/Sao_Paulo, UTC
TzOffsets == {-3, 0}

\* UTC offsets the date helper is run under: also Europe/Lisbon (summer)
TzOffsetsCal == {-3, 0, 1}

\* The calendar days the clock takes: 60 = 2024-02-29 (Thu), 70 = 2024-03-10 (Sun),
\* and under part_003, whose route reads the clock, 91 = 2024-03-31 (Sun, last of March)
DiasRelogio == IF variant = "part_000" THEN {60, 70} ELSE {60, 70, 91}

\* The hours of the day GET /api/meta-hoje-dinamica is asked at; the sales of the
\* day are recorded at noon, so the request never precedes them
Horas == {12, 23}

\* The dates GET /api/metas/:data is asked for:
\*   69 = 2024-03-09 (Sat)   70 = 2024-03-10 (Sun)
\*   91 = 2024-03-31 (Sun, last of March)
Dias == {69, 70, 91}

\* The date POST /api/metas sets an override for
DiasMeta == {70}

\* Days the date-helper harness draws its interval bounds from (2024-03-08 .. 2024-03-18)
DiasCal == 68..78

-----------------------------------------------------------------------------
(* Calendar and JS Date *)

\* month lengths of 2024, what new Date(ano, mes + 1, 0) resolves to
DiasDoMes == <<31, 29, 31, 30, 31, 30, 31, 31, 30, 31, 30, 31>>

RECURSIVE InicioDoMes(_)
\* day number of the first day of month m (1..12): new Date(ano, mes, 1)
InicioDoMes(m) == IF m = 1 THEN 1 ELSE InicioDoMes(m - 1) + DiasDoMes[m - 1]

\* getMonth() of a day number, as 1..12
MesDe(n) == CHOOSE m \in 1..12 : InicioDoMes(m) <= n /\ n < InicioDoMes(m) + DiasDoMes[m]

\* new Date(ano, mes, 1) for the month of day n, as a day number
PrimeiroDiaDoMes(n) == InicioDoMes(MesDe(n))

\* new Date(ano, mes + 1, 0) for the month of day n, as a day number
UltimoDiaDoMes(n) == InicioDoMes(MesDe(n)) + DiasDoMes[MesDe(n)] - 1

\* weekday of a calendar day, 0 = Sunday (2024-01-01, day 1, is a Monday)
DiaDaSemana(n) == n % 7

\* a string that is no date ("abc", ""): it has no day number
DataInvalida == 0

\* the time value of an Invalid Date
NaN == -1

\* new Date("YYYY-MM-DD"): a date-only ISO string is UTC midnight; a string
\* that does not parse gives an Invalid Date
DateParseISO(n) == IF n = DataInvalida THEN NaN ELSE n * 24 + tz

\* d <= end of two Date objects: false when either is an Invalid Date
DateLeq(d, end) == d # NaN /\ end # NaN /\ d <= end

\* new Date(y, m, d) and new Date("YYYY-MM-DDT00:00:00"): local midnight
DateLocal(n) == n * 24

\* Date.prototype.getDay(): weekday of the local calendar day
getDay(h) == DiaDaSemana(h \div 24)

\* Date.prototype.toISOString().slice(0, 10): the UTC calendar day
toISODate(h) == (h - tz) \div 24

RECURSIVE contarLoop(_, _, _)
\* the while loop of contarDiasUteis
contarLoop(d, end, count) ==
    IF DateLeq(d, end)
    THEN contarLoop(d + 24, end, IF getDay(d) # 0 THEN count + 1 ELSE count)
    ELSE count

\* contarDiasUteis(startDate, endDate) of part_000
contarDiasUteis(startDate, endDate) ==
    contarLoop(DateParseISO(startDate), DateParseISO(endDate), 0)

\* the number of non-Sunday calendar days of the closed interval [from, to]
DiasNaoDomingo(from, to) == Cardinality({n \in from..to : DiaDaSemana(n) # 0})

-----------------------------------------------------------------------------
(* Program constants *)

\* meta_padrao DECIMAL(10,2) DEFAULT 15000, and metaPadrao || 15000
MetaPadraoDefault == 15000

\* meta_mensal DECIMAL(10,2) DEFAULT 30000, and metaMensal || 30000
MetaMensalDefault == 30000

\* meta_mensal of the default manager inserted by criarTabelas
MetaMensalGerente == 90000

-----------------------------------------------------------------------------
(* Inputs the requests draw from *)

\* names of the sellers that can exist (vendedoras.nome is UNIQUE)
Nomes == {"gerente", "ana"}

\* callers: 0 is a request without a valid token, otherwise the id in the token
Callers == 0..2

\* valor of POST /api/vendas: missing (0) or an amount
ValoresVenda == {0, 10000}

\* valorMeta of POST /api/metas
ValoresMeta == {-500, 500}

\* metaMensal of PUT /api/admin/vendedoras/:id/meta-mensal
ValoresMetaMensal == {0, 10000}

\* :id of PUT /api/admin/vendedoras/:id/meta-mensal (3 is no seller)
IdsAlvo == {2, 3}

\* metaPadrao of POST /api/admin/vendedoras (0 would be a missing field)
ValoresMetaPadrao == {500}

-----------------------------------------------------------------------------
(* Numbers *)

\* an exact quotient num / den, den > 0
Frac(num, den) == [num |-> num, den |-> den]

\* a JS number holding a whole amount
Num(k) == Frac(k, 1)

\* a = b for two quotients
FracEq(a, b) == a.num * b.den = b.num * a.den

\* a >= 0 for a quotient
FracNonNeg(a) == a.num >= 0

RECURSIVE Soma(_)
\* SUM(valor) over a set of vendas rows
Soma(S) ==
    IF S = {} THEN 0
    ELSE LET r == CHOOSE x \in S : TRUE IN r.valor + Soma(S \ {r})

-----------------------------------------------------------------------------
(* part_000: calcularMetaDia *)

\* SELECT meta_mensal, meta_padrao FROM vendedoras WHERE id = $1
SelectVendedora(vendedoraId) == {v \in vendedoras : v.id = vendedoraId}

\* the rows summed by calcularMetaDia:
\*   WHERE vendedora_id = $1 AND data_venda >= inicioMes
\*     AND data_venda < ($3::date + INTERVAL '1 day')
SelectVendasNoMes(vendedoraId, dataISO) ==
    {v \in vendas :
        /\ v.vendedora_id = vendedoraId
        /\ v.data_venda >= DateLocal(PrimeiroDiaDoMes(dataISO))
        /\ v.data_venda < (dataISO + 1) * 24}

\* the result of calcularMetaDia when the seller row is missing
calcSemVendedora == [metaDia |-> Num(0), metaMensal |-> 0, vendidoNoMes |-> 0, faltaNoMes |-> 0]

\* mutant: the fallback reports the sales of the table as vendidoNoMes
calcMetaPadrao_SomaVendas(metaPadrao) ==
    [metaDia |-> Num(metaPadrao), metaMensal |-> 0, vendidoNoMes |-> Soma(vendas),
     faltaNoMes |-> 0]

\* the result of calcularMetaDia when meta_mensal is not configured (!metaMensal)
calcMetaPadrao(metaPadrao) ==
    [metaDia |-> Num(metaPadrao), metaMensal |-> 0, vendidoNoMes |-> 0, faltaNoMes |-> 0]

\* calcularMetaDia(vendedoraId, dataISO) for a dataISO that is no date and a
\* seller row that exists: data, inicioMes and fimMes are Invalid Dates, which
\* no statement tests. Without quota the fallback is returned before any date
\* is used; with a quota the sales query casts the string ($3::date), the
\* database rejects it and the function throws
calcularMetaDiaDataInvalida(metaMensal, metaPadrao) ==
    IF metaMensal = 0
    THEN [erro |-> FALSE, metaDia |-> calcMetaPadrao(metaPadrao).metaDia]
    ELSE [erro |-> TRUE, metaDia |-> Num(0)]

\* fimMes.toISOString().slice(0, 10), fimMes = new Date(ano, mes + 1, 0)
fimMesISO(dataISO) == toISODate(DateLocal(UltimoDiaDoMes(dataISO)))

\* mutant: faltaNoMes is the distance to the quota, not clamped at 0
calcPacing_Abs(metaMensal, vendidoNoMes, dataISO) ==
    LET faltaNoMes == IF metaMensal - vendidoNoMes < 0 THEN vendidoNoMes - metaMensal
                      ELSE metaMensal - vendidoNoMes
        diasUteisRestantes == contarDiasUteis(dataISO, fimMesISO(dataISO))
    IN  [metaDia      |-> IF diasUteisRestantes > 0 /\ faltaNoMes # 0
                          THEN Frac(faltaNoMes, diasUteisRestantes) ELSE Num(0),
         metaMensal   |-> metaMensal,
         vendidoNoMes |-> vendidoNoMes,
         faltaNoMes   |-> faltaNoMes]

\* mutant: faltaNoMes is not clamped at 0 (if (faltaNoMes < 0) faltaNoMes = 0 is missing)
calcPacing_NoClamp(metaMensal, vendidoNoMes, dataISO) ==
    LET faltaNoMes == metaMensal - vendidoNoMes
        diasUteisRestantes == contarDiasUteis(dataISO, fimMesISO(dataISO))
    IN  [metaDia      |-> IF diasUteisRestantes > 0 /\ faltaNoMes > 0
                          THEN Frac(faltaNoMes, diasUteisRestantes) ELSE Num(0),
         metaMensal   |-> metaMensal,
         vendidoNoMes |-> vendidoNoMes,
         faltaNoMes   |-> faltaNoMes]

\* the pacing part of calcularMetaDia, after the sales sum is known
calcPacing(metaMensal, vendidoNoMes, dataISO) ==
    LET faltaNoMes == IF metaMensal - vendidoNoMes < 0 THEN 0 ELSE metaMensal - vendidoNoMes
        diasUteisRestantes == contarDiasUteis(dataISO, fimMesISO(dataISO))
        metaDia == IF diasUteisRestantes > 0
                   THEN Frac(faltaNoMes, diasUteisRestantes)
                   ELSE Num(0)
    IN  [metaDia      |-> IF faltaNoMes = 0 THEN Num(0) ELSE metaDia,
         metaMensal   |-> metaMensal,
         vendidoNoMes |-> vendidoNoMes,
         faltaNoMes   |-> faltaNoMes]

-----------------------------------------------------------------------------
(* part_000: middleware *)

\* autenticar: the rows of
\*   SELECT id, nome, is_gerente FROM vendedoras WHERE id = $1 AND ativo = true
\* for the id of the token; no row (or no valid token, caller 0) answers 401
autenticar(caller) == {v \in vendedoras : v.id = caller /\ v.ativo}

\* exigirGerente: req.isGerente of the authenticated row
exigirGerente(caller) == \E v \in autenticar(caller) : v.is_gerente

-----------------------------------------------------------------------------
(* part_000: state after criarTabelas *)

\* the default manager row inserted by criarTabelas
GerentePadrao ==
    [id |-> 1, nome |-> "gerente", meta_padrao |-> MetaPadraoDefault,
     meta_mensal |-> MetaMensalGerente, is_gerente |-> TRUE, ativo |-> TRUE]

Init000 ==
    /\ variant = "part_000"
    /\ tz \in TzOffsets
    /\ hoje = 60
    /\ vendedoras = {GerentePadrao}
    /\ vendas = {}
    /\ vendas_id_seq = 0
    /\ metas = {}
    /\ metas_gerais = <<>>
    /\ req = [pc |-> "idle"]
    /\ resposta = [status |-> 0]
    /\ cal = [op |-> "none"]

\* the clock moves to a later day
AvancarRelogio ==
    /\ \E d \in DiasRelogio : d > hoje /\ hoje' = d
    /\ UNCHANGED <<variant, tz, vendedoras, vendas, vendas_id_seq, metas, metas_gerais, req, resposta, cal>>

-----------------------------------------------------------------------------
(* part_000: write routes. Each is one INSERT or UPDATE after autenticar; the  *)
(* row autenticar reads is never deleted or deactivated by part_000, so the     *)
(* two awaited queries are taken as one step. The status the route answers is   *)
(* the operator <Route>Status of the state the request meets.                   *)

\* status of POST /api/admin/vendedoras
AdminCriarVendedoraStatus(caller, nome) ==
    IF autenticar(caller) = {} THEN 401
    ELSE IF ~exigirGerente(caller) THEN 403
    ELSE IF \E v \in vendedoras : v.nome = nome THEN 400  \* unique violation 23505
    ELSE 201

\* POST /api/admin/vendedoras (isGerente is not given)
AdminCriarVendedora(caller, nome, metaPadrao, metaMensal) ==
    /\ variant = "part_000"
    /\ vendedoras' =
          IF AdminCriarVendedoraStatus(caller, nome) = 201
          THEN vendedoras \cup
                  {[id |-> Cardinality(vendedoras) + 1, nome |-> nome,
                    meta_padrao |-> IF metaPadrao = 0 THEN MetaPadraoDefault ELSE metaPadrao,
                    meta_mensal |-> IF metaMensal = 0 THEN MetaMensalDefault ELSE metaMensal,
                    is_gerente |-> FALSE, ativo |-> TRUE]}
          ELSE vendedoras
    /\ resposta' = IF AdminCriarVendedoraStatus(caller, nome) = 201 THEN [status |-> 0] ELSE resposta
    /\ UNCHANGED <<variant, tz, hoje, vendas, vendas_id_seq, metas, metas_gerais, req, cal>>

\* status of PUT /api/admin/vendedoras/:id/meta-mensal
AdminMetaMensalStatus(caller, id) ==
    IF autenticar(caller) = {} THEN 401
    ELSE IF ~exigirGerente(caller) THEN 403
    ELSE IF SelectVendedora(id) = {} THEN 404
    ELSE 200

\* PUT /api/admin/vendedoras/:id/meta-mensal
AdminMetaMensal(caller, id, metaMensal) ==
    /\ variant = "part_000"
    /\ vendedoras' =
          IF AdminMetaMensalStatus(caller, id) = 200
          THEN {IF v.id = id THEN [v EXCEPT !.meta_mensal = metaMensal] ELSE v
                : v \in vendedoras}
          ELSE vendedoras
    /\ resposta' = IF AdminMetaMensalStatus(caller, id) = 200 THEN [status |-> 0] ELSE resposta
    /\ UNCHANGED <<variant, tz, hoje, vendas, vendas_id_seq, metas, metas_gerais, req, cal>>

\* status of POST /api/vendas (formaPagamento is given)
PostVendasStatus(caller, valor) ==
    IF autenticar(caller) = {} THEN 401
    ELSE IF valor = 0 THEN 400   \* !valor
    ELSE 201

\* POST /api/vendas; data_venda is CURRENT_TIMESTAMP, some time of the current
\* day, taken as noon
PostVendas(caller, valor) ==
    /\ variant = "part_000"
    /\ vendas_id_seq < MaxVendas
    /\ vendas' =
          IF PostVendasStatus(caller, valor) = 201
          THEN vendas \cup
                  {[id |-> vendas_id_seq + 1, vendedora_id |-> caller,
                    valor |-> valor, data_venda |-> hoje * 24 + 12]}
          ELSE vendas
    /\ vendas_id_seq' = IF PostVendasStatus(caller, valor) = 201
                        THEN vendas_id_seq + 1 ELSE vendas_id_seq
    /\ resposta' = IF PostVendasStatus(caller, valor) = 201 THEN [status |-> 0] ELSE resposta
    /\ UNCHANGED <<variant, tz, hoje, vendedoras, metas, metas_gerais, req, cal>>

\* the rows of UPDATE/DELETE ... WHERE id = $3 AND vendedora_id = $4
SelectVendaDaVendedora(id, vendedoraId) ==
    {v \in vendas : v.id = id /\ v.vendedora_id = vendedoraId}

\* status of PUT /api/vendas/:id
PutVendasStatus(caller, id) ==
    IF autenticar(caller) = {} THEN 401
    ELSE IF SelectVendaDaVendedora(id, caller) = {} THEN 404  \* 'Venda não encontrada'
    ELSE 200

\* mutant: UPDATE vendas ... WHERE id = $3, without AND vendedora_id = $4
PutVendas_AnyOwner(caller, id, dado, valor) ==
    /\ variant = "part_000"
    /\ vendas' =
          IF autenticar(caller) # {}
          THEN {IF v.id = id THEN [v EXCEPT !.valor = IF dado THEN valor ELSE @] ELSE v
                : v \in vendas}
          ELSE vendas
    /\ resposta' = IF vendas' # vendas THEN [status |-> 0] ELSE resposta
    /\ UNCHANGED <<variant, tz, hoje, vendedoras, vendas_id_seq, metas, metas_gerais, req, cal>>

\* PUT /api/vendas/:id: SET valor = COALESCE($1, valor); dado says whether the
\* body carries valor
PutVendas(caller, id, dado, valor) ==
    /\ variant = "part_000"
    /\ vendas' =
          IF PutVendasStatus(caller, id) = 200
          THEN {IF v \in SelectVendaDaVendedora(id, caller)
                THEN [v EXCEPT !.valor = IF dado THEN valor ELSE @] ELSE v
                : v \in vendas}
          ELSE vendas
    /\ resposta' = IF PutVendasStatus(caller, id) = 200 THEN [status |-> 0] ELSE resposta
    /\ UNCHANGED <<variant, tz, hoje, vendedoras, vendas_id_seq, metas, metas_gerais, req, cal>>

\* status of DELETE /api/vendas/:id: 200 whether or not a row was deleted
DeleteVendasStatus(caller) == IF autenticar(caller) = {} THEN 401 ELSE 200

\* DELETE /api/vendas/:id
DeleteVendas(caller, id) ==
    /\ variant = "part_000"
    /\ vendas' =
          IF DeleteVendasStatus(caller) = 200
          THEN vendas \ SelectVendaDaVendedora(id, caller)
          ELSE vendas
    /\ resposta' = IF DeleteVendasStatus(caller) = 200 THEN [status |-> 0] ELSE resposta
    /\ UNCHANGED <<variant, tz, hoje, vendedoras, vendas_id_seq, metas, metas_gerais, req, cal>>

\* mutant: WHERE vendedora_id = $1, without AND data_meta = $2
SelectMeta_AnyDate(vendedoraId, data) ==
    {m \in metas : m.vendedora_id = vendedoraId}

\* mutant: WHERE data_meta = $2, without vendedora_id = $1
SelectMeta_AnySeller(vendedoraId, data) ==
    {m \in metas : m.data_meta = data}

\* SELECT valor_meta FROM metas WHERE vendedora_id = $1 AND data_meta = $2
SelectMeta(vendedoraId, data) ==
    {m \in metas : m.vendedora_id = vendedoraId /\ m.data_meta = data}

\* mutant: DO UPDATE SET valor_meta = metas.valor_meta + EXCLUDED.valor_meta
UpsertMeta_Accumulates(vendedoraId, valorMeta, data) ==
    IF SelectMeta(vendedoraId, data) # {}
    THEN {IF m.vendedora_id = vendedoraId /\ m.data_meta = data
          THEN [m EXCEPT !.valor_meta = @ + valorMeta] ELSE m : m \in metas}
    ELSE metas \cup {[id |-> Cardinality(metas) + 1, vendedora_id |-> vendedoraId,
                      valor_meta |-> valorMeta, data_meta |-> data]}

\* mutant: a plain INSERT, without ON CONFLICT ... DO UPDATE
UpsertMeta_PlainInsert(vendedoraId, valorMeta, data) ==
    metas \cup {[id |-> Cardinality(metas) + 1, vendedora_id |-> vendedoraId,
                 valor_meta |-> valorMeta, data_meta |-> data]}

\* INSERT INTO metas (vendedora_id, valor_meta, data_meta) VALUES ($1,$2,$3)
\*   ON CONFLICT (vendedora_id, data_meta) DO UPDATE SET valor_meta = EXCLUDED.valor_meta
\* : the table after the statement
UpsertMeta(vendedoraId, valorMeta, data) ==
    IF SelectMeta(vendedoraId, data) # {}
    THEN {IF m.vendedora_id = vendedoraId /\ m.data_meta = data
          THEN [m EXCEPT !.valor_meta = valorMeta] ELSE m : m \in metas}
    ELSE metas \cup {[id |-> Cardinality(metas) + 1, vendedora_id |-> vendedoraId,
                      valor_meta |-> valorMeta, data_meta |-> data]}

\* status of POST /api/metas
PostMetasStatus(caller) == IF autenticar(caller) = {} THEN 401 ELSE 200

\* POST /api/metas
PostMetas(caller, valorMeta, data) ==
    /\ variant = "part_000"
    /\ metas' = IF PostMetasStatus(caller) = 200
                THEN UpsertMeta(caller, valorMeta, data)
                ELSE metas
    /\ resposta' = IF PostMetasStatus(caller) = 200 THEN [status |-> 0] ELSE resposta
    /\ UNCHANGED <<variant, tz, hoje, vendedoras, vendas, vendas_id_seq, metas_gerais, req, cal>>

-----------------------------------------------------------------------------
(* part_000: GET /api/metas/:data, one step per awaited query.                *)
(* resposta is the response to the latest such request: status 0 while it is  *)
(* in flight.                                                                 *)

\* autenticar and the first query of calcularMetaDia (the seller row)
GetMetasInicio(caller, data) ==
    /\ variant = "part_000"
    /\ req.pc = "idle"
    /\ IF autenticar(caller) = {} THEN
            /\ resposta' = [status |-> 401]
            /\ UNCHANGED req
       ELSE LET rVend == SelectVendedora(caller) IN
            /\ resposta' = [status |-> 0]
            /\ IF rVend = {} THEN
                    req' = [pc |-> "meta", vendedoraId |-> caller, data |-> data,
                            calc |-> calcSemVendedora]
               ELSE LET row == CHOOSE v \in rVend : TRUE IN
                    IF row.meta_mensal = 0 THEN
                        req' = [pc |-> "meta", vendedoraId |-> caller, data |-> data,
                                calc |-> calcMetaPadrao(row.meta_padrao)]
                    ELSE
                        req' = [pc |-> "vendas", vendedoraId |-> caller, data |-> data,
                                metaMensal |-> row.meta_mensal]
    /\ UNCHANGED <<variant, tz, hoje, vendedoras, vendas, vendas_id_seq, metas, metas_gerais, cal>>

\* the sales query of calcularMetaDia and the pacing computation
GetMetasVendas ==
    /\ req.pc = "vendas"
    /\ req' = [pc |-> "meta", vendedoraId |-> req.vendedoraId, data |-> req.data,
               calc |-> calcPacing(req.metaMensal,
                                   Soma(SelectVendasNoMes(req.vendedoraId, req.data)),
                                   req.data)]
    /\ UNCHANGED <<variant, tz, hoje, vendedoras, vendas, vendas_id_seq, metas, metas_gerais, resposta, cal>>

\* mutant: the override row is ignored
valorMetaDia_IgnoresOverride(calc, rMeta) == calc.metaDia

\* valorMetaDia of the route: the override row when there is one
valorMetaDia(calc, rMeta) ==
    IF rMeta # {} THEN Num((CHOOSE m \in rMeta : TRUE).valor_meta) ELSE calc.metaDia

\* mutant: the figures of the response are zeroed when an override exists
RespostaMetas_ZeroesFigures(vendedoraId, data, calc, rMeta) ==
    [status |-> 200, vendedoraId |-> vendedoraId, data |-> data,
     valor_meta     |-> valorMetaDia(calc, rMeta),
     meta_mensal    |-> IF rMeta # {} THEN 0 ELSE calc.metaMensal,
     vendido_no_mes |-> IF rMeta # {} THEN 0 ELSE calc.vendidoNoMes,
     falta_no_mes   |-> IF rMeta # {} THEN 0 ELSE calc.faltaNoMes]

\* res.json({valor_meta, meta_mensal, vendido_no_mes, falta_no_mes}), with the
\* seller and the date the request was for
RespostaMetas(vendedoraId, data, calc, rMeta) ==
    [status |-> 200, vendedoraId |-> vendedoraId, data |-> data,
     valor_meta     |-> valorMetaDia(calc, rMeta),
     meta_mensal    |-> calc.metaMensal,
     vendido_no_mes |-> calc.vendidoNoMes,
     falta_no_mes   |-> calc.faltaNoMes]

\* mutant: the route stores the target it answers as the override of the day
GetMetasFim_StoresTarget ==
    /\ req.pc = "meta"
    /\ resposta' = RespostaMetas(req.vendedoraId, req.data, req.calc,
                                 SelectMeta(req.vendedoraId, req.data))
    /\ metas' = IF SelectMeta(req.vendedoraId, req.data) = {}
                THEN UpsertMeta(req.vendedoraId, 0, req.data) ELSE metas
    /\ req' = [pc |-> "idle"]
    /\ UNCHANGED <<variant, tz, hoje, vendedoras, vendas, vendas_id_seq, metas_gerais, cal>>

\* the override query and the response
GetMetasFim ==
    /\ req.pc = "meta"
    /\ resposta' = RespostaMetas(req.vendedoraId, req.data, req.calc,
                                 SelectMeta(req.vendedoraId, req.data))
    /\ req' = [pc |-> "idle"]
    /\ UNCHANGED <<variant, tz, hoje, vendedoras, vendas, vendas_id_seq, metas, metas_gerais, cal>>

Next000 ==
    \/ AvancarRelogio
    \/ \E c \in Callers, n \in Nomes, p \in ValoresMetaPadrao : AdminCriarVendedora(c, n, p, 0)
    \/ \E c \in Callers, id \in IdsAlvo, m \in ValoresMetaMensal : AdminMetaMensal(c, id, m)
    \/ \E c \in Callers, v \in ValoresVenda : PostVendas(c, v)
    \/ \E c \in Callers, v \in ValoresMeta, d \in DiasMeta : PostMetas(c, v, d)
    \/ \E c \in Callers, d \in Dias : GetMetasInicio(c, d)
    \/ GetMetasVendas
    \/ GetMetasFim

-----------------------------------------------------------------------------
(* part_003: one global monthly quota, calcularMetaDinamica.                  *)
(* autenticar takes id and role from the token alone; a token is issued by    *)
(* /api/login to an existing seller and carries the role of its row, which no *)
(* route of part_003 changes. The table metas_gerais is read and written by   *)
(* the routes but not created by inicializarBanco; it is taken to exist.      *)

\* the manager row inserted by inicializarBanco
GerentePadrao_003 ==
    [id |-> 1, nome |-> "gerente", meta_padrao |-> MetaPadraoDefault,
     role |-> "gerente", ativo |-> TRUE]

Init003 ==
    /\ variant = "part_003"
    /\ tz \in TzOffsets
    /\ hoje = 60
    /\ vendedoras = {GerentePadrao_003}
    /\ vendas = {}
    /\ vendas_id_seq = 0
    /\ metas = {}
    /\ metas_gerais = <<>>
    /\ req = [pc |-> "idle"]
    /\ resposta = [status |-> 0]
    /\ cal = [op |-> "none"]

\* autenticar of part_003: the token of caller verifies (0 is no valid token)
autenticar_003(caller) == \E v \in vendedoras : v.id = caller

\* somenteGerente: req.role, the role the token carries
somenteGerente(caller) == \E v \in vendedoras : v.id = caller /\ v.role = "gerente"

\* status of POST /api/vendedoras
CriarVendedoraStatus_003(caller, nome) ==
    IF ~autenticar_003(caller) THEN 401
    ELSE IF ~somenteGerente(caller) THEN 403
    ELSE IF \E v \in vendedoras : v.nome = nome THEN 400
    ELSE 200

\* POST /api/vendedoras (role is not given)
CriarVendedora_003(caller, nome, metaPadrao) ==
    /\ variant = "part_003"
    /\ vendedoras' =
          IF CriarVendedoraStatus_003(caller, nome) = 200
          THEN vendedoras \cup
                  {[id |-> Cardinality(vendedoras) + 1, nome |-> nome,
                    meta_padrao |-> IF metaPadrao = 0 THEN MetaPadraoDefault ELSE metaPadrao,
                    role |-> "vendedora", ativo |-> TRUE]}
          ELSE vendedoras
    /\ resposta' = IF CriarVendedoraStatus_003(caller, nome) = 200 THEN [status |-> 0] ELSE resposta
    /\ UNCHANGED <<variant, tz, hoje, vendas, vendas_id_seq, metas, metas_gerais, req, cal>>

\* status of POST /api/meta-mensal
PostMetaMensalStatus_003(caller) ==
    IF ~autenticar_003(caller) THEN 401
    ELSE IF ~somenteGerente(caller) THEN 403
    ELSE 200

\* POST /api/meta-mensal:
\*   INSERT INTO metas_gerais (id, meta_mensal) VALUES (1, $1)
\*   ON CONFLICT (id) DO UPDATE SET meta_mensal=$1
PostMetaMensal_003(caller, metaMensal) ==
    /\ variant = "part_003"
    /\ metas_gerais' = IF PostMetaMensalStatus_003(caller) = 200
                       THEN <<metaMensal>> ELSE metas_gerais
    /\ resposta' = IF PostMetaMensalStatus_003(caller) = 200 THEN [status |-> 0] ELSE resposta
    /\ UNCHANGED <<variant, tz, hoje, vendedoras, vendas, vendas_id_seq, metas, req, cal>>

\* POST /api/vendas of part_003: valor is stored as given
PostVendas_003(caller, valor) ==
    /\ variant = "part_003"
    /\ vendas_id_seq < MaxVendas
    /\ vendas' =
          IF autenticar_003(caller)
          THEN vendas \cup
                  {[id |-> vendas_id_seq + 1, vendedora_id |-> caller,
                    valor |-> valor, data_venda |-> hoje * 24 + 12]}
          ELSE vendas
    /\ vendas_id_seq' = IF autenticar_003(caller) THEN vendas_id_seq + 1 ELSE vendas_id_seq
    /\ resposta' = IF autenticar_003(caller) THEN [status |-> 0] ELSE resposta
    /\ UNCHANGED <<variant, tz, hoje, vendedoras, metas, metas_gerais, req, cal>>

\* status of PUT /api/vendas/:id of part_003
PutVendasStatus_003(caller, id) ==
    IF ~autenticar_003(caller) THEN 401
    ELSE IF SelectVendaDaVendedora(id, caller) = {} THEN 400  \* "Venda não encontrada."
    ELSE 200

\* PUT /api/vendas/:id of part_003: SET valor=$1 ... WHERE id=$6 AND vendedora_id=$7
PutVendas_003(caller, id, valor) ==
    /\ variant = "part_003"
    /\ vendas' =
          IF PutVendasStatus_003(caller, id) = 200
          THEN {IF v \in SelectVendaDaVendedora(id, caller)
                THEN [v EXCEPT !.valor = valor] ELSE v : v \in vendas}
          ELSE vendas
    /\ resposta' = IF PutVendasStatus_003(caller, id) = 200 THEN [status |-> 0] ELSE resposta
    /\ UNCHANGED <<variant, tz, hoje, vendedoras, vendas_id_seq, metas, metas_gerais, req, cal>>

\* DELETE /api/vendas/:id of part_003
DeleteVendas_003(caller, id) ==
    /\ variant = "part_003"
    /\ vendas' =
          IF autenticar_003(caller)
          THEN vendas \ SelectVendaDaVendedora(id, caller)
          ELSE vendas
    /\ resposta' = IF autenticar_003(caller) THEN [status |-> 0] ELSE resposta
    /\ UNCHANGED <<variant, tz, hoje, vendedoras, vendas_id_seq, metas, metas_gerais, req, cal>>

\* status of PUT /api/vendedoras/:id (the UPDATE is not checked for a row)
AtualizarVendedoraStatus_003(caller) ==
    IF ~autenticar_003(caller) THEN 401
    ELSE IF ~somenteGerente(caller) THEN 403
    ELSE 200

\* PUT /api/vendedoras/:id:
\*   UPDATE vendedoras SET email=$1, meta_padrao=$2, ativo=$3 WHERE id=$4
AtualizarVendedora_003(caller, id, metaPadrao, ativo) ==
    /\ variant = "part_003"
    /\ vendedoras' =
          IF AtualizarVendedoraStatus_003(caller) = 200
          THEN {IF v.id = id THEN [v EXCEPT !.meta_padrao = metaPadrao, !.ativo = ativo]
                ELSE v : v \in vendedoras}
          ELSE vendedoras
    /\ resposta' = IF AtualizarVendedoraStatus_003(caller) = 200 THEN [status |-> 0] ELSE resposta
    /\ UNCHANGED <<variant, tz, hoje, vendas, vendas_id_seq, metas, metas_gerais, req, cal>>

RECURSIVE diasLoop(_, _, _)
\* the for loop of diasUteisRestantes, over the days d..ultimoDia of the month
diasLoop(d, ultimoDia, dias) ==
    IF d <= ultimoDia
    THEN diasLoop(d + 1, ultimoDia, IF getDay(DateLocal(d)) # 0 THEN dias + 1 ELSE dias)
    ELSE dias

\* diasUteisRestantes(): non-Sunday days from today to the end of the month,
\* all in local time
diasUteisRestantes == diasLoop(hoje, UltimoDiaDoMes(hoje), 0)

\* Math.max(x, 0) of a quotient
FracMax0(a) == IF a.num < 0 THEN Num(0) ELSE a

\* calcularMetaDinamica(metaMensal, vendidoAteHoje)
calcularMetaDinamica(metaMensal, vendidoAteHoje) ==
    LET diasRestantes == diasUteisRestantes IN
    IF diasRestantes <= 0 THEN Num(metaMensal)   \* fallback
    ELSE FracMax0(Frac(metaMensal - vendidoAteHoje, diasRestantes))

\* Number(x.toFixed(2)) of a quotient >= 0: rounded to hundredths
toFixed2(a) == Frac((200 * a.num + a.den) \div (2 * a.den), 100)

\* SELECT SUM(valor) FROM vendas WHERE data_venda::date = $1 AND vendedora_id=$2
SelectVendasHoje_003(vendedoraId, dia) ==
    {v \in vendas : v.vendedora_id = vendedoraId /\ v.data_venda \div 24 = dia}

\* SELECT SUM(valor) FROM vendas WHERE data_venda::date <= $1 AND vendedora_id=$2
SelectVendasAteHoje_003(vendedoraId, dia) ==
    {v \in vendas : v.vendedora_id = vendedoraId /\ v.data_venda \div 24 <= dia}

\* GET /api/meta-hoje-dinamica, asked at hour hora of the current day; its three
\* queries are issued together and taken as one read of the tables
GetMetaHojeDinamica(caller, hora) ==
    /\ variant = "part_003"
    /\ IF ~autenticar_003(caller) THEN resposta' = [status |-> 401]
       ELSE LET hojeISO == toISODate(hoje * 24 + hora)
                metaMensal == IF metas_gerais = <<>> THEN 0 ELSE metas_gerais[1]
                vendidoHoje == Soma(SelectVendasHoje_003(caller, hojeISO))
                vendidoAteHoje == Soma(SelectVendasAteHoje_003(caller, hojeISO))
                metaDinamica == calcularMetaDinamica(metaMensal, vendidoAteHoje)
            IN  resposta' = [status |-> 200, vendedoraId |-> caller, data |-> hoje,
                             hora |-> hora,
                             metaMensal |-> metaMensal,
                             vendidoHoje |-> vendidoHoje,
                             vendidoAteHoje |-> vendidoAteHoje,
                             metaDinamica |-> toFixed2(metaDinamica)]
    /\ UNCHANGED <<variant, tz, hoje, vendedoras, vendas, vendas_id_seq, metas, metas_gerais, req, cal>>

Next003 ==
    \/ \E c \in Callers, n \in Nomes, p \in ValoresMetaPadrao : CriarVendedora_003(c, n, p)
    \/ \E c \in Callers, id \in IdsAlvo, p \in ValoresMetaPadrao, a \in BOOLEAN :
          AtualizarVendedora_003(c, id, p, a)
    \/ \E c \in Callers, m \in ValoresMetaMensal : PostMetaMensal_003(c, m)
    \/ \E c \in Callers, v \in ValoresVenda : PostVendas_003(c, v)
    \/ \E c \in Callers, h \in Horas : GetMetaHojeDinamica(c, h)

-----------------------------------------------------------------------------
(* server_js: the second server of backend/server.js (lines 312-792). It has  *)
(* no manager role and no monthly quota; the daily goal is the override row,  *)
(* or else meta_padrao. autenticar verifies the signature of the token and    *)
(* takes the id it carries, without a query. Each route is taken as one step. *)

\* the program default of POST /api/vendedoras and of GET /api/metas/:data here
MetaPadraoDefault_js == 15000

\* the tables after criarTabelas, which inserts no row
Init_js ==
    /\ variant = "server_js"
    /\ tz = 0
    /\ hoje = 60
    /\ vendedoras = {}
    /\ vendas = {}
    /\ vendas_id_seq = 0
    /\ metas = {}
    /\ metas_gerais = <<>>
    /\ req = [pc |-> "idle"]
    /\ resposta = [status |-> 0]
    /\ cal = [op |-> "none"]

\* autenticar: a token whose signature verifies (caller 0 has none)
autenticar_js(caller) == caller # 0

\* status of POST /api/vendedoras: the route has no middleware
CriarVendedoraStatus_js(nome) ==
    IF \E v \in vendedoras : v.nome = nome THEN 400  \* unique violation 23505
    ELSE 201

\* POST /api/vendedoras, whoever sends it
CriarVendedora_js(caller, nome, metaPadrao) ==
    /\ variant = "server_js"
    /\ vendedoras' =
          IF CriarVendedoraStatus_js(nome) = 201
          THEN vendedoras \cup
                  {[id |-> Cardinality(vendedoras) + 1, nome |-> nome,
                    meta_padrao |-> IF metaPadrao = 0 THEN MetaPadraoDefault_js
                                    ELSE metaPadrao,
                    ativo |-> TRUE]}
          ELSE vendedoras
    /\ resposta' = IF CriarVendedoraStatus_js(nome) = 201 THEN [status |-> 0] ELSE resposta
    /\ UNCHANGED <<variant, tz, hoje, vendas, vendas_id_seq, metas, metas_gerais, req, cal>>

\* status of POST /api/metas (data is given); metas.vendedora_id REFERENCES
\* vendedoras(id), so the INSERT for an id without a row throws and answers 500
PostMetasStatus_js(caller) ==
    IF ~autenticar_js(caller) THEN 401
    ELSE IF SelectVendedora(caller) = {} THEN 500
    ELSE 200

\* POST /api/metas: valor = Number(valorMeta || 0), then the upsert
PostMetas_js(caller, valorMeta, data) ==
    /\ variant = "server_js"
    /\ metas' = IF PostMetasStatus_js(caller) = 200
                THEN UpsertMeta(caller, valorMeta, data)
                ELSE metas
    /\ resposta' = IF PostMetasStatus_js(caller) = 200 THEN [status |-> 0] ELSE resposta
    /\ UNCHANGED <<variant, tz, hoje, vendedoras, vendas, vendas_id_seq, metas_gerais, req, cal>>

\* valor_meta of GET /api/metas/:data: the override row, or else
\*   vendedora.rows[0]?.meta_padrao ?? 15000
valorMeta_js(rMeta, rVend) ==
    IF rMeta # {} THEN Num((CHOOSE m \in rMeta : TRUE).valor_meta)
    ELSE IF rVend # {} THEN Num((CHOOSE v \in rVend : TRUE).meta_padrao)
    ELSE Num(MetaPadraoDefault_js)

\* GET /api/metas/:data
GetMetas_js(caller, data) ==
    /\ variant = "server_js"
    /\ resposta' =
          IF ~autenticar_js(caller) THEN [status |-> 401]
          ELSE [status |-> 200, vendedoraId |-> caller, data |-> data,
                valor_meta |-> valorMeta_js(SelectMeta(caller, data),
                                            SelectVendedora(caller))]
    /\ UNCHANGED <<variant, tz, hoje, vendedoras, vendas, vendas_id_seq, metas, metas_gerais, req, cal>>

Next_js ==
    \/ \E c \in Callers, n \in Nomes, p \in ValoresMetaPadrao : CriarVendedora_js(c, n, p)
    \/ \E c \in Callers, v \in ValoresMeta, d \in DiasMeta : PostMetas_js(c, v, d)
    \/ \E c \in Callers, d \in DiasMeta : GetMetas_js(c, d)

-----------------------------------------------------------------------------
(* The service: one of the variants is deployed *)

Init == Init000 \/ Init003 \/ Init_js

Next == Next000 \/ Next003 \/ Next_js

Spec == Init /\ [][Next]_vars

-----------------------------------------------------------------------------
(* What the claims are stated with *)

\* the step of GET /api/metas/:data that reads the override and responds
PassoGetMetasFim == req.pc = "meta" /\ req'.pc = "idle"

\* the step of GET /api/metas/:data that sums the sales
PassoGetMetasVendas == req.pc = "vendas" /\ req'.pc = "meta"

\* a step of part_003 that answers GET /api/meta-hoje-dinamica with 200
PassoGetMetaHojeDinamica ==
    variant = "part_003" /\ resposta' # resposta /\ resposta'.status = 200

\* the calendar day of a sale
DiaDaVenda(v) == v.data_venda \div 24

\* the sum of the sales of seller s from the first day of the month of d through d
RealizadoAte(s, d) ==
    Soma({v \in vendas : v.vendedora_id = s
                         /\ DiaDaVenda(v) >= PrimeiroDiaDoMes(d) /\ DiaDaVenda(v) <= d})

\* the selling days from d through the end of its month
DiasDeVendaRestantes(d) == DiasNaoDomingo(d, UltimoDiaDoMes(d))

-----------------------------------------------------------------------------
(* C1..C10 *)

\* C1: whenever an override row exists for exactly (seller, date) when
\* GET /api/metas/:data reads it, the valor_meta of the response is the stored
\* override amount, whatever calcularMetaDia computed.
C1_OverridePrecedence ==
    [][PassoGetMetasFim =>
          \A m \in SelectMeta(req.vendedoraId, req.data) :
              /\ resposta'.status = 200
              /\ resposta'.valor_meta = Num(m.valor_meta)]_vars

\* C1 witness: a response carrying the override 500 of (seller, 2024-03-10)
\* while the month still has an unmet remainder
C1_Witness ==
    /\ resposta.status = 200 /\ variant = "part_000"
    /\ resposta.data = 70
    /\ resposta.falta_no_mes > 0
    /\ resposta.valor_meta = Num(500)
    /\ \E m \in SelectMeta(resposta.vendedoraId, 70) : m.valor_meta = 500

\* C2: with an override for (seller, date), the response still reports
\* meta_mensal, vendido_no_mes and falta_no_mes as calcularMetaDia computed
\* them; the override changes valor_meta only.
C2_FiguresKept ==
    [][PassoGetMetasFim /\ SelectMeta(req.vendedoraId, req.data) # {} =>
          /\ resposta'.meta_mensal = req.calc.metaMensal
          /\ resposta'.vendido_no_mes = req.calc.vendidoNoMes
          /\ resposta'.falta_no_mes = req.calc.faltaNoMes]_vars

\* C2 witness: quota 30000, realized 10000, remaining 20000 on 2024-03-10 with
\* the override 500
C2_Witness ==
    /\ resposta.status = 200 /\ variant = "part_000"
    /\ resposta.data = 70
    /\ resposta.meta_mensal = 30000
    /\ resposta.vendido_no_mes = 10000
    /\ resposta.falta_no_mes = 20000
    /\ resposta.valor_meta = Num(500)

\* C3: the daily target of every response is >= 0.
C3_NonNegative ==
    resposta.status = 200 =>
        IF variant = "part_003" THEN FracNonNeg(resposta.metaDinamica)
        ELSE FracNonNeg(resposta.valor_meta)

\* C4: with a quota > 0 and realized >= quota the computed daily target is 0,
\* for every date and every number of selling days remaining.
C4_GoalMetSaturation ==
    /\ (variant = "part_000" /\ req.pc = "meta"
        /\ req.calc.metaMensal > 0 /\ req.calc.vendidoNoMes >= req.calc.metaMensal)
       => FracEq(req.calc.metaDia, Num(0))
    /\ (variant = "part_003" /\ resposta.status = 200
        /\ resposta.metaMensal > 0 /\ resposta.vendidoAteHoje >= resposta.metaMensal)
       => FracEq(resposta.metaDinamica, Num(0))

\* C5: with the quota unset (0) and no override, the daily target is the
\* seller's meta_padrao, whatever the sales and the date.
C5_Fallback ==
    [][/\ (PassoGetMetasFim /\ req.calc.metaMensal = 0
           /\ SelectMeta(req.vendedoraId, req.data) = {})
          => \E v \in SelectVendedora(req.vendedoraId) :
                resposta'.valor_meta = Num(v.meta_padrao)
       /\ (PassoGetMetaHojeDinamica /\ resposta'.metaMensal = 0)
          => \E v \in SelectVendedora(resposta'.vendedoraId) :
                FracEq(resposta'.metaDinamica, Num(v.meta_padrao))]_vars

\* C6: with quota > 0, remaining > 0 and selling days remaining > 0, the
\* computed daily target times the selling days remaining is the remaining
\* amount (the exact quotient).
C6_ExactQuotient ==
    /\ (variant = "part_000" /\ req.pc = "meta"
        /\ req.calc.metaMensal > 0 /\ req.calc.faltaNoMes > 0
        /\ DiasDeVendaRestantes(req.data) > 0)
       => req.calc.metaDia.num * DiasDeVendaRestantes(req.data)
             = req.calc.faltaNoMes * req.calc.metaDia.den
    /\ variant = "part_003"
       => \A m \in ValoresMetaMensal, v \in ValoresVenda :
             (m > 0 /\ m - v > 0 /\ DiasDeVendaRestantes(hoje) > 0)
             => calcularMetaDinamica(m, v).num * DiasDeVendaRestantes(hoje)
                   = (m - v) * calcularMetaDinamica(m, v).den

\* C7: with quota > 0 and no selling day left from the date through the end of
\* the month, the computed daily target is 0.
C7_NoSellingDays ==
    /\ (variant = "part_000" /\ req.pc = "meta"
        /\ req.calc.metaMensal > 0 /\ DiasDeVendaRestantes(req.data) <= 0)
       => FracEq(req.calc.metaDia, Num(0))
    /\ variant = "part_003"
       => \A m \in ValoresMetaMensal, v \in ValoresVenda :
             (m > 0 /\ DiasDeVendaRestantes(hoje) <= 0)
             => FracEq(calcularMetaDinamica(m, v), Num(0))

\* C8: the realized amount the goal is computed from is the sum of exactly the
\* seller's sales from the first day of the month of the date through the date.
C8_RealizedToDate ==
    [][/\ PassoGetMetasVendas
          => req'.calc.vendidoNoMes = RealizadoAte(req.vendedoraId, req.data)
       /\ PassoGetMetaHojeDinamica
          => resposta'.vendidoAteHoje = RealizadoAte(resposta'.vendedoraId, hoje)]_vars

\* C9: contarDiasUteis(from, to) is the number of non-Sunday calendar days of
\* the closed interval [from, to] (0 when from > to).
C9_CountSellingDays ==
    cal.op = "contarDiasUteis" => cal.out = DiasNaoDomingo(cal.from, cal.to)

\* C10: the metas table holds at most one row per (seller, date), and after an
\* accepted POST /api/metas exactly one row exists for its key, with the amount
\* of that call.
C10_OneRowPerKey ==
    [][/\ \A m1 \in metas', m2 \in metas' :
             (m1.vendedora_id = m2.vendedora_id /\ m1.data_meta = m2.data_meta) => m1 = m2
       /\ \A c \in Callers, v \in ValoresMeta, d \in DiasMeta :
             (PostMetasStatus(c) = 200 /\ PostMetas(c, v, d))
             => /\ Cardinality({m \in metas' : m.vendedora_id = c /\ m.data_meta = d}) = 1
                /\ \A m \in metas' :
                      (m.vendedora_id = c /\ m.data_meta = d) => m.valor_meta = v]_vars

\* C10 witness: two sellers hold an override each for 2024-03-10, that of
\* seller 2 rewritten to -500
C10_Witness ==
    /\ Cardinality(metas) = 2
    /\ \E m \in metas : m.vendedora_id = 2 /\ m.id = 1 /\ m.valor_meta = -500

-----------------------------------------------------------------------------
(* Specification SpecCal: contarDiasUteis on drawn inputs *)

\* the days the clock of the harness stands at (calcularMetaDinamica reads it)
DiasHojeCal == {60, 70, 91}

\* the dates, monthly quotas and realized amounts the pacing functions are run on;
\* 121 = 2024-04-30 (Tue, last of April)
DiasPacingCal == {69, 70, 91, 121}
QuotasCal == {0, 10000, 30000}
RealizadosCal == {0, 10000, 20000}

\* the dates the target is compared across: 69, 70 and the last days of March
\* (89 Fri, 90 Sat, 91 Sun), of April (120 = 2024-04-29 Mon, 121 Tue) and of
\* September (272 = 2024-09-28 Sat, 274 = 2024-09-30 Mon)
DiasAvancoCal == {69, 70, 89, 90, 91, 120, 121, 272, 274}

InitCal ==
    /\ variant = "part_000"
    /\ tz \in TzOffsetsCal
    /\ hoje \in DiasHojeCal
    /\ vendedoras = <<>>
    /\ vendas = {}
    /\ vendas_id_seq = 0
    /\ metas = {}
    /\ metas_gerais = <<>>
    /\ req = [pc |-> "idle"]
    /\ resposta = [status |-> 0]
    /\ cal = [op |-> "none"]

CalContar ==
    /\ \E from \in DiasCal, to \in DiasCal :
          cal' = [op |-> "contarDiasUteis", from |-> from, to |-> to,
                  out |-> contarDiasUteis(from, to)]
    /\ UNCHANGED <<variant, tz, hoje, vendedoras, vendas, vendas_id_seq, metas, metas_gerais, req, resposta>>

\* the selling days calcularMetaDia counts for dataISO:
\*   contarDiasUteis(dataISO, fimMes.toISOString().slice(0, 10))
CalDiasRestantes ==
    /\ \E d \in DiasPacingCal :
          cal' = [op |-> "diasUteisRestantes", data |-> d,
                  out |-> contarDiasUteis(d, fimMesISO(d))]
    /\ UNCHANGED <<variant, tz, hoje, vendedoras, vendas, vendas_id_seq, metas, metas_gerais, req, resposta>>

\* contarDiasUteis with a start or an end that is no date; the function has no
\* throw, its result is what it returns
CalContarInvalida ==
    /\ \E from \in DiasCal \cup {DataInvalida}, to \in DiasCal \cup {DataInvalida} :
          /\ from = DataInvalida \/ to = DataInvalida
          /\ cal' = [op |-> "dataInvalida", fn |-> "contarDiasUteis",
                     from |-> from, to |-> to,
                     erro |-> FALSE, out |-> Num(contarDiasUteis(from, to))]
    /\ UNCHANGED <<variant, tz, hoje, vendedoras, vendas, vendas_id_seq, metas, metas_gerais, req, resposta>>

\* calcularMetaDia with a date that is no date, for a seller row with this
\* quota and the meta_padrao 500
CalMetaDiaInvalida ==
    /\ \E q \in QuotasCal :
          cal' = [op |-> "dataInvalida", fn |-> "calcularMetaDia",
                  from |-> DataInvalida, to |-> DataInvalida,
                  erro |-> calcularMetaDiaDataInvalida(q, 500).erro,
                  out |-> calcularMetaDiaDataInvalida(q, 500).metaDia]
    /\ UNCHANGED <<variant, tz, hoje, vendedoras, vendas, vendas_id_seq, metas, metas_gerais, req, resposta>>

\* metaDia of calcularMetaDia for one quota and date and two realized amounts
CalMetaDia ==
    /\ \E q \in QuotasCal \ {0}, r1 \in RealizadosCal, r2 \in RealizadosCal,
          d \in DiasPacingCal :
          cal' = [op |-> "calcularMetaDia", metaMensal |-> q, data |-> d,
                  r1 |-> r1, r2 |-> r2,
                  out1 |-> calcPacing(q, r1, d).metaDia,
                  out2 |-> calcPacing(q, r2, d).metaDia]
    /\ UNCHANGED <<variant, tz, hoje, vendedoras, vendas, vendas_id_seq, metas, metas_gerais, req, resposta>>

\* metaDia of calcularMetaDia for one quota and realized amount on two dates of
\* one month
CalMetaDiaDatas ==
    /\ \E q \in QuotasCal \ {0}, r \in RealizadosCal,
          d1 \in DiasAvancoCal, d2 \in DiasAvancoCal :
          /\ MesDe(d1) = MesDe(d2)
          /\ cal' = [op |-> "calcularMetaDiaDatas", metaMensal |-> q, r |-> r,
                     d1 |-> d1, d2 |-> d2,
                     out1 |-> calcPacing(q, r, d1).metaDia,
                     out2 |-> calcPacing(q, r, d2).metaDia]
    /\ UNCHANGED <<variant, tz, hoje, vendedoras, vendas, vendas_id_seq, metas, metas_gerais, req, resposta>>

\* calcularMetaDinamica for one quota and two realized amounts, on the day hoje
CalMetaDinamica ==
    /\ \E q \in QuotasCal, r1 \in RealizadosCal, r2 \in RealizadosCal :
          cal' = [op |-> "calcularMetaDinamica", metaMensal |-> q, data |-> hoje,
                  r1 |-> r1, r2 |-> r2,
                  out1 |-> calcularMetaDinamica(q, r1),
                  out2 |-> calcularMetaDinamica(q, r2)]
    /\ UNCHANGED <<variant, tz, hoje, vendedoras, vendas, vendas_id_seq, metas, metas_gerais, req, resposta>>

NextCal ==
    \/ CalContar
    \/ CalContarInvalida
    \/ CalMetaDiaInvalida
    \/ CalDiasRestantes
    \/ CalMetaDia
    \/ CalMetaDiaDatas
    \/ CalMetaDinamica

SpecCal == InitCal /\ [][NextCal]_vars

-----------------------------------------------------------------------------
(* Specification SpecMetas: concurrent POST /api/metas requests of part_000.   *)
(* Each request is two awaited queries, autenticar and the upsert, and the     *)
(* requests in flight interleave at them. req.posts holds the requests, and    *)
(* cal the order in which the table applied their statements.                  *)

\* most POST /api/metas requests in flight together
MaxChamadas == 2

\* the seller row POST /api/admin/vendedoras inserts for nome "ana", metaPadrao 500
Ana ==
    [id |-> 2, nome |-> "ana", meta_padrao |-> 500,
     meta_mensal |-> MetaMensalDefault, is_gerente |-> FALSE, ativo |-> TRUE]

\* a request slot nothing has arrived in
PostOcioso == [pc |-> "idle", caller |-> 0, valorMeta |-> 0, data |-> 0, status |-> 0]

\* the database after the manager created ana and ana sold 10000 on 2024-03-10
InitMetas ==
    /\ variant = "part_000"
    /\ tz = 0
    /\ hoje = 70
    /\ vendedoras = {GerentePadrao, Ana}
    /\ vendas = {[id |-> 1, vendedora_id |-> 2, valor |-> 10000, data_venda |-> 70 * 24 + 12]}
    /\ vendas_id_seq = 1
    /\ metas = {}
    /\ metas_gerais = <<>>
    /\ req = [pc |-> "posts", posts |-> [i \in 1..MaxChamadas |-> PostOcioso]]
    /\ resposta = [status |-> 0]
    /\ cal = [op |-> "POST /api/metas", aplicadas |-> <<>>,
              aoChegar |-> [i \in 1..MaxChamadas |-> 0]]

\* a request arrives: { valorMeta, data } of the body, the token of the caller
PostMetasChega(i, caller, valorMeta, data) ==
    /\ req.posts[i].pc = "idle"
    /\ req' = [req EXCEPT !.posts[i] =
                  [pc |-> "auth", caller |-> caller, valorMeta |-> valorMeta,
                   data |-> data, status |-> 0]]
    /\ cal' = [cal EXCEPT !.aoChegar[i] = Len(cal.aplicadas)]
    /\ UNCHANGED <<variant, tz, hoje, vendedoras, vendas, vendas_id_seq, metas, metas_gerais, resposta>>

\* the query of autenticar returns
PostMetasAutenticar(i) ==
    /\ req.posts[i].pc = "auth"
    /\ req' = [req EXCEPT !.posts[i] =
                  IF autenticar(req.posts[i].caller) = {}
                  THEN [@ EXCEPT !.pc = "fim", !.status = 401]
                  ELSE [@ EXCEPT !.pc = "upsert"]]
    /\ UNCHANGED <<variant, tz, hoje, vendedoras, vendas, vendas_id_seq, metas, metas_gerais, resposta, cal>>

\* mutant: ON CONFLICT (vendedora_id, data_meta) DO NOTHING
PostMetasUpsert_DoNothing(i) ==
    /\ req.posts[i].pc = "upsert"
    /\ metas' = IF SelectMeta(req.posts[i].caller, req.posts[i].data) # {} THEN metas
                ELSE UpsertMeta(req.posts[i].caller, req.posts[i].valorMeta, req.posts[i].data)
    /\ req' = [req EXCEPT !.posts[i] = [@ EXCEPT !.pc = "fim", !.status = 200]]
    /\ cal' = [cal EXCEPT !.aplicadas = Append(@, i)]
    /\ UNCHANGED <<variant, tz, hoje, vendedoras, vendas, vendas_id_seq, metas_gerais, resposta>>

\* the INSERT ... ON CONFLICT DO UPDATE statement runs (one statement, atomic in
\* the database) and the route answers the row
PostMetasUpsert(i) ==
    /\ req.posts[i].pc = "upsert"
    /\ metas' = UpsertMeta(req.posts[i].caller, req.posts[i].valorMeta, req.posts[i].data)
    /\ req' = [req EXCEPT !.posts[i] = [@ EXCEPT !.pc = "fim", !.status = 200]]
    /\ cal' = [cal EXCEPT !.aplicadas = Append(@, i)]
    /\ UNCHANGED <<variant, tz, hoje, vendedoras, vendas, vendas_id_seq, metas_gerais, resposta>>

NextMetas ==
    \/ \E i \in 1..MaxChamadas, c \in Callers, v \in ValoresMeta, d \in DiasMeta :
          PostMetasChega(i, c, v, d)
    \/ \E i \in 1..MaxChamadas : PostMetasAutenticar(i)
    \/ \E i \in 1..MaxChamadas : PostMetasUpsert(i)

SpecMetas == InitMetas /\ [][NextMetas]_vars

\* the response of GET /api/metas/:data when no write falls between its queries
RespostaSemIntercalacao(caller, data) ==
    LET rVend == SelectVendedora(caller)
        row   == CHOOSE v \in rVend : TRUE
        calc  == IF rVend = {} THEN calcSemVendedora
                 ELSE IF row.meta_mensal = 0 THEN calcMetaPadrao(row.meta_padrao)
                 ELSE calcPacing(row.meta_mensal,
                                 Soma(SelectVendasNoMes(caller, data)), data)
    IN  IF autenticar(caller) = {} THEN [status |-> 401]
        ELSE RespostaMetas(caller, data, calc, SelectMeta(caller, data))

\* the requests whose statement the table has applied, in the order applied
Aplicadas == cal.aplicadas

\* request i and request j carry the same caller, amount and date
MesmosArgumentos(i, j) ==
    /\ req.posts[i].caller = req.posts[j].caller
    /\ req.posts[i].valorMeta = req.posts[j].valorMeta
    /\ req.posts[i].data = req.posts[j].data

-----------------------------------------------------------------------------
(* Specification SpecEscritas: the routes that write sellers and sales, of     *)
(* part_000 and part_003, with bodies that carry negative amounts and with the *)
(* sale edit and delete routes. No goal is asked and the clock stands.         *)

\* valor of POST /api/vendas: negative, missing (0) or an amount
ValoresVendaEscritas == {-500, 0, 10000}

\* valor of PUT /api/vendas/:id
ValoresEdicao == {-500, 20000}

\* :id of PUT and DELETE /api/vendas/:id
IdsVenda == 1..MaxVendas

\* metaMensal of PUT /api/admin/vendedoras/:id/meta-mensal
ValoresMetaMensalEscritas == {-1000, 10000}

\* metaPadrao of POST /api/admin/vendedoras, POST /api/vendedoras and
\* PUT /api/vendedoras/:id
ValoresMetaPadraoEscritas == {-500, 500}

InitEscritas == (Init000 \/ Init003) /\ tz = 0

NextEscritas ==
    \/ \E c \in Callers, n \in Nomes, p \in ValoresMetaPadraoEscritas :
          AdminCriarVendedora(c, n, p, 0)
    \/ \E c \in Callers, id \in IdsAlvo, m \in ValoresMetaMensalEscritas :
          AdminMetaMensal(c, id, m)
    \/ \E c \in Callers, v \in ValoresVendaEscritas : PostVendas(c, v)
    \/ \E c \in Callers, id \in IdsVenda, dado \in BOOLEAN, v \in ValoresEdicao :
          PutVendas(c, id, dado, v)
    \/ \E c \in Callers, id \in IdsVenda : DeleteVendas(c, id)
    \/ \E c \in Callers, n \in Nomes, p \in ValoresMetaPadraoEscritas :
          CriarVendedora_003(c, n, p)
    \/ \E c \in Callers, id \in IdsAlvo, p \in ValoresMetaPadraoEscritas, a \in BOOLEAN :
          AtualizarVendedora_003(c, id, p, a)
    \/ \E c \in Callers, v \in ValoresVendaEscritas : PostVendas_003(c, v)
    \/ \E c \in Callers, id \in IdsVenda, v \in ValoresEdicao : PutVendas_003(c, id, v)
    \/ \E c \in Callers, id \in IdsVenda : DeleteVendas_003(c, id)

SpecEscritas == InitEscritas /\ [][NextEscritas]_vars

-----------------------------------------------------------------------------
(* Specification SpecRitmo: a seller of part_000 who follows the target. From *)
(* a start date through the end of the month, on every day but Sunday she     *)
(* asks GET /api/metas/<today> in the morning and records one sale of the     *)
(* valor_meta answered. cal holds the start, the quota, what was realized     *)
(* before and the targets answered so far.                                    *)

\* start dates: the last days of March (88 Thu .. 90 Sat), of April (118 Sat,
\* 119 Sun, 120 Mon, 121 Tue) and of September (272 Sat, 274 Mon)
DiasRitmo == {88, 89, 90, 118, 119, 120, 121, 272, 274}

\* monthly quotas and amounts realized on the first day of the month; every
\* target they give is a whole amount
QuotasRitmo == {30000, 60000}
RealizadosRitmo == {0, 6000}

InitRitmo ==
    /\ variant = "part_000"
    /\ tz \in TzOffsetsCal
    /\ hoje \in DiasRitmo
    /\ \E q \in QuotasRitmo, r \in RealizadosRitmo :
          /\ vendedoras = {GerentePadrao, [Ana EXCEPT !.meta_mensal = q]}
          /\ vendas = IF r = 0 THEN {}
                      ELSE {[id |-> 1, vendedora_id |-> Ana.id, valor |-> r,
                             data_venda |-> DateLocal(PrimeiroDiaDoMes(hoje)) + 12]}
          /\ vendas_id_seq = IF r = 0 THEN 0 ELSE 1
          /\ cal = [op |-> "ritmo", inicio |-> hoje, metaMensal |-> q, realizado |-> r,
                    fase |-> "manha", alvos |-> <<>>]
    /\ metas = {}
    /\ metas_gerais = <<>>
    /\ req = [pc |-> "idle"]
    /\ resposta = [status |-> 0]

\* a day that is not Sunday: GET /api/metas/<today>, then POST /api/vendas with
\* the valor_meta answered (a valor of 0 is refused by the route, !valor)
RitmoVenda ==
    /\ cal.op = "ritmo" /\ cal.fase = "manha"
    /\ MesDe(hoje) = MesDe(cal.inicio)
    /\ DiaDaSemana(hoje) # 0
    /\ LET alvo  == RespostaSemIntercalacao(Ana.id, hoje).valor_meta
           valor == alvo.num \div alvo.den
       IN  /\ vendas' =
                 IF PostVendasStatus(Ana.id, valor) = 201
                 THEN vendas \cup
                         {[id |-> vendas_id_seq + 1, vendedora_id |-> Ana.id,
                           valor |-> valor, data_venda |-> hoje * 24 + 12]}
                 ELSE vendas
           /\ vendas_id_seq' = IF PostVendasStatus(Ana.id, valor) = 201
                               THEN vendas_id_seq + 1 ELSE vendas_id_seq
           /\ cal' = [cal EXCEPT !.fase = "noite", !.alvos = Append(@, alvo)]
    /\ UNCHANGED <<variant, tz, hoje, vendedoras, metas, metas_gerais, req, resposta>>

\* midnight: the next day begins (a Sunday passes without a sale)
RitmoVirada ==
    /\ cal.op = "ritmo"
    /\ cal.fase = "noite" \/ DiaDaSemana(hoje) = 0
    /\ MesDe(hoje) = MesDe(cal.inicio)
    /\ hoje' = hoje + 1
    /\ cal' = [cal EXCEPT !.fase = "manha"]
    /\ UNCHANGED <<variant, tz, vendedoras, vendas, vendas_id_seq, metas, metas_gerais,
                   req, resposta>>

NextRitmo == RitmoVenda \/ RitmoVirada

SpecRitmo == InitRitmo /\ [][NextRitmo]_vars

-----------------------------------------------------------------------------
(* C11..C20 *)

\* C11: when the statement of a POST /api/metas runs right after the statement
\* of a request with the same caller, amount and date, the table stays as the
\* first left it (one row, that amount), and GET /api/metas/:data answers the
\* caller the same before and after the second.
C11_IdempotentOverride ==
    [][\A i \in 1..MaxChamadas :
          (/\ req.posts[i].pc = "upsert" /\ req'.posts[i].pc = "fim"
           /\ Aplicadas # <<>>
           /\ MesmosArgumentos(i, Aplicadas[Len(Aplicadas)]))
          => /\ metas' = metas
             /\ Cardinality(SelectMeta(req.posts[i].caller, req.posts[i].data)') = 1
             /\ \A m \in SelectMeta(req.posts[i].caller, req.posts[i].data)' :
                   m.valor_meta = req.posts[i].valorMeta
             /\ RespostaSemIntercalacao(req.posts[i].caller, req.posts[i].data)'
                   = RespostaSemIntercalacao(req.posts[i].caller, req.posts[i].data)]_vars

\* C11 witness: two requests of ana with the amount 500 for 2024-03-10 were
\* applied one after the other, and one row with 500 is stored
C11_Witness ==
    /\ req.pc = "posts"
    /\ Len(Aplicadas) = 2
    /\ MesmosArgumentos(Aplicadas[1], Aplicadas[2])
    /\ req.posts[Aplicadas[1]].caller = 2 /\ req.posts[Aplicadas[1]].valorMeta = 500
    /\ \A i \in 1..MaxChamadas : req.posts[i].pc \in {"idle", "fim"}
    /\ Cardinality(metas) = 1
    /\ RespostaSemIntercalacao(2, 70).valor_meta = Num(500)

\* C12: no row of the override table holds a negative amount (a POST /api/metas
\* with a negative valorMeta is rejected and writes nothing).
C12_NoNegativeOverride ==
    \A m \in metas : m.valor_meta >= 0

\* a step of server_js that answers GET /api/metas/:data with 200
PassoGetMetas_js ==
    variant = "server_js" /\ resposta' # resposta /\ resposta'.status = 200

\* the seller row with this id exists and is active
VendedoraAtiva(id) == \E v \in vendedoras : v.id = id /\ v.ativo

\* C14: a goal is computed only for a seller whose row exists and is active
\* when the request is served; otherwise the request fails and carries no goal.
C14_NotFound ==
    [][/\ (variant = "part_000" /\ req.pc = "idle" /\ req'.pc \in {"vendas", "meta"})
          => VendedoraAtiva(req'.vendedoraId)
       /\ PassoGetMetaHojeDinamica => VendedoraAtiva(resposta'.vendedoraId)
       /\ PassoGetMetas_js => VendedoraAtiva(resposta'.vendedoraId)]_vars

\* C15: no goal is answered from an empty lookup of the seller: neither the
\* zeros of calcularMetaDia nor the default 15000 of server_js stand in for a
\* seller row that was not found.
C15_NoMaskedLookup ==
    [][/\ (variant = "part_000" /\ req.pc = "idle" /\ req'.pc \in {"vendas", "meta"})
          => /\ SelectVendedora(req'.vendedoraId) # {}
             /\ req'.pc = "meta" => req'.calc # calcSemVendedora
       /\ (PassoGetMetas_js
           /\ SelectMeta(resposta'.vendedoraId, resposta'.data) = {})
          => SelectVendedora(resposta'.vendedoraId) # {}]_vars

\* the tables of the database
tabelas == <<vendedoras, vendas, metas, metas_gerais>>

\* C16: creating a seller, editing a seller and updating a monthly quota change
\* the tables only when the caller is a manager (server_js knows no manager).
C16_ManagerOnly ==
    [][/\ \A c \in Callers, n \in Nomes, p \in ValoresMetaPadrao :
             (AdminCriarVendedora(c, n, p, 0) /\ ~exigirGerente(c))
             => UNCHANGED tabelas
       /\ \A c \in Callers, id \in IdsAlvo, m \in ValoresMetaMensal :
             (AdminMetaMensal(c, id, m) /\ ~exigirGerente(c)) => UNCHANGED tabelas
       /\ \A c \in Callers, n \in Nomes, p \in ValoresMetaPadrao :
             (CriarVendedora_003(c, n, p) /\ ~somenteGerente(c)) => UNCHANGED tabelas
       /\ \A c \in Callers, id \in IdsAlvo, p \in ValoresMetaPadrao, a \in BOOLEAN :
             (AtualizarVendedora_003(c, id, p, a) /\ ~somenteGerente(c))
             => UNCHANGED tabelas
       /\ \A c \in Callers, m \in ValoresMetaMensal :
             (PostMetaMensal_003(c, m) /\ ~somenteGerente(c)) => UNCHANGED tabelas
       /\ \A c \in Callers, n \in Nomes, p \in ValoresMetaPadrao :
             CriarVendedora_js(c, n, p) => UNCHANGED tabelas]_vars

\* C17: POST /api/metas creates or changes an override row only for a caller
\* who is a manager (server_js knows no manager).
C17_OverrideByManager ==
    [][/\ \A c \in Callers, v \in ValoresMeta, d \in DiasMeta :
             (PostMetas(c, v, d) /\ metas' # metas) => exigirGerente(c)
       /\ \A c \in Callers, v \in ValoresMeta, d \in DiasMeta :
             PostMetas_js(c, v, d) => metas' = metas]_vars

\* the positions in Aplicadas of the requests for the key (c, d)
AplicadasNaChave(c, d) ==
    {k \in 1..Len(Aplicadas) :
        req.posts[Aplicadas[k]].caller = c /\ req.posts[Aplicadas[k]].data = d}

\* the greatest element of a non-empty set of numbers
Maior(S) == CHOOSE k \in S : \A j \in S : j <= k

\* C13: however concurrent POST /api/metas requests for one (seller, date)
\* interleave, the table never holds two rows for the key, and once every
\* request has completed the one row holds the amount of the request whose
\* statement the table applied last.
C13_LastWriteWins ==
    /\ \A m1 \in metas, m2 \in metas :
          (m1.vendedora_id = m2.vendedora_id /\ m1.data_meta = m2.data_meta) => m1 = m2
    /\ (req.pc = "posts" /\ \A i \in 1..MaxChamadas : req.posts[i].pc \in {"idle", "fim"})
       => \A c \in Callers, d \in DiasMeta :
             AplicadasNaChave(c, d) # {}
             => /\ Cardinality(SelectMeta(c, d)) = 1
                /\ \A m \in SelectMeta(c, d) :
                      m.valor_meta =
                         req.posts[Aplicadas[Maior(AplicadasNaChave(c, d))]].valorMeta

\* C13 witness: two requests of ana for 2024-03-10 with different amounts were
\* both in flight before the table applied either, both completed, and the row
\* holds the amount of the second applied
C13_Witness ==
    /\ req.pc = "posts"
    /\ Len(Aplicadas) = 2
    /\ \A i \in 1..MaxChamadas : req.posts[i].pc \in {"idle", "fim"}
    /\ req.posts[Aplicadas[1]].caller = 2 /\ req.posts[Aplicadas[2]].caller = 2
    /\ req.posts[Aplicadas[1]].valorMeta # req.posts[Aplicadas[2]].valorMeta
    /\ cal.aoChegar[Aplicadas[1]] = 0 /\ cal.aoChegar[Aplicadas[2]] = 0
    /\ \E m \in metas : m.valor_meta = req.posts[Aplicadas[2]].valorMeta
    /\ Cardinality(metas) = 1

\* a <= b for two quotients
FracLeq(a, b) == a.num * b.den <= b.num * a.den

\* C18: for one quota, one date and the selling days they give, the daily
\* target computed for the greater realized amount is not greater.
C18_MonotonicPacing ==
    (cal.op \in {"calcularMetaDia", "calcularMetaDinamica"} /\ cal.r1 <= cal.r2)
    => FracLeq(cal.out2, cal.out1)

\* C18 witness: calcularMetaDia with quota 30000 on 2024-03-10 gives a smaller
\* positive target for the realized 20000 than for 10000
C18_Witness ==
    /\ cal.op = "calcularMetaDia"
    /\ cal.metaMensal = 30000 /\ cal.data = 70
    /\ cal.r1 = 10000 /\ cal.r2 = 20000
    /\ cal.out2.num > 0
    /\ ~FracLeq(cal.out1, cal.out2)

\* C19: the selling days calcularMetaDia counts for a date are the non-Sunday
\* days from the date through the last day of its month, in every time zone.
C19_SellingDaysRemaining ==
    cal.op = "diasUteisRestantes" => cal.out = DiasDeVendaRestantes(cal.data)

\* C20: a response of GET /api/metas/:data with meta_mensal > 0 reports
\* falta_no_mes = max(meta_mensal - vendido_no_mes, 0) of its own figures.
C20_RemainingClamped ==
    (variant = "part_000" /\ resposta.status = 200 /\ resposta.meta_mensal > 0)
    => /\ resposta.falta_no_mes >= 0
       /\ resposta.falta_no_mes =
             IF resposta.meta_mensal - resposta.vendido_no_mes < 0 THEN 0
             ELSE resposta.meta_mensal - resposta.vendido_no_mes

\* C20 witness: a response with quota 10000, realized 20000 and remaining 0,
\* whose seller's quota was changed while the request was being served
C20_Witness ==
    /\ variant = "part_000" /\ resposta.status = 200
    /\ resposta.meta_mensal = 10000
    /\ resposta.vendido_no_mes = 20000
    /\ resposta.falta_no_mes = 0
    /\ \E v \in vendedoras :
          v.id = resposta.vendedoraId /\ v.meta_mensal # resposta.meta_mensal

-----------------------------------------------------------------------------
(* C21..C30 *)

\* the override rows stored for exactly the seller and the date
OverrideExato(vendedoraId, data) ==
    {m \in metas : m.vendedora_id = vendedoraId /\ m.data_meta = data}

\* C21: when no override row is stored for exactly (seller, date) as
\* GET /api/metas/:data reads the table, valor_meta is the computed (or
\* fallback) value, whatever rows the table holds for the seller on other
\* dates and for other sellers on the date.
C21_ExactKeyOnly ==
    [][/\ (PassoGetMetasFim /\ OverrideExato(req.vendedoraId, req.data) = {})
          => /\ resposta'.status = 200
             /\ resposta'.valor_meta = req.calc.metaDia
       /\ (PassoGetMetas_js
           /\ OverrideExato(resposta'.vendedoraId, resposta'.data) = {})
          => resposta'.valor_meta
                = valorMeta_js({}, {v \in vendedoras : v.id = resposta'.vendedoraId})]_vars

\* C21 witness: seller 2 is answered the computed target for 2024-03-09 while
\* she holds an override for 2024-03-10 and seller 1 holds another one
C21_Witness ==
    /\ variant = "part_000" /\ resposta.status = 200
    /\ resposta.vendedoraId = 2 /\ resposta.data = 69
    /\ resposta.falta_no_mes > 0
    /\ resposta.valor_meta.den > 1
    /\ \E m \in metas : m.vendedora_id = 2 /\ m.data_meta = 70
    /\ \E m \in metas : m.vendedora_id = 1 /\ m.data_meta = 70

\* a step of one of the goal routes: GET /api/metas/:data of part_000 (any of
\* its three steps), GET /api/meta-hoje-dinamica of part_003, GET
\* /api/metas/:data of server_js. Only they move req or put an answer (200 or
\* 401) in resposta.
PassoDeMeta ==
    \/ req' # req
    \/ resposta' # resposta /\ resposta'.status # 0

\* C24: no step of a goal request, answered or refused, changes a table, nor
\* the time zone or the clock: everything the answer to the next call is
\* computed from is as the call found it.
C24_ReadOnly ==
    [][PassoDeMeta => UNCHANGED <<tabelas, tz, hoje>>]_vars

\* C24 witness: a goal request of part_000 was answered over tables that hold
\* two sellers, a sale and an override, and the call repeated now is answered
\* the same
C24_Witness ==
    /\ variant = "part_000" /\ req.pc = "idle"
    /\ resposta.status = 200 /\ resposta.vendedoraId = 2
    /\ Cardinality(vendedoras) = 2 /\ vendas # {} /\ metas # {}
    /\ resposta = RespostaSemIntercalacao(2, resposta.data)

\* C28: when the seller row read by calcularMetaDia has no monthly quota
\* (meta_mensal 0 or NULL), the request goes to the override query without the
\* sales query, and the response reports meta_mensal, vendido_no_mes and
\* falta_no_mes as 0, whatever the seller sold in the month.
C28_UnsetQuotaFigures ==
    [][/\ (variant = "part_000" /\ req.pc = "idle" /\ req'.pc # "idle"
           /\ \E v \in vendedoras : v.id = req'.vendedoraId /\ v.meta_mensal = 0)
          => /\ req'.pc = "meta"
             /\ req'.calc.metaMensal = 0
             /\ req'.calc.vendidoNoMes = 0
             /\ req'.calc.faltaNoMes = 0
       /\ (PassoGetMetasFim /\ req.calc.metaMensal = 0)
          => /\ resposta'.meta_mensal = 0
             /\ resposta'.vendido_no_mes = 0
             /\ resposta'.falta_no_mes = 0]_vars

\* C28 witness: a response with the three figures 0 for a seller without
\* quota who has sold in the month through the date asked
C28_Witness ==
    /\ variant = "part_000" /\ resposta.status = 200
    /\ resposta.meta_mensal = 0
    /\ resposta.vendido_no_mes = 0 /\ resposta.falta_no_mes = 0
    /\ \E v \in vendedoras : v.id = resposta.vendedoraId /\ v.meta_mensal = 0
    /\ RealizadoAte(resposta.vendedoraId, resposta.data) > 0

\* C29: a request whose caller has no active seller row when it is served is
\* refused, whatever token it carries: it changes no table and is answered no
\* goal (part_000 reads the row in autenticar; part_003 has only the token).
C29_StoredRecordDecides ==
    [][/\ \A c \in Callers :
             ~VendedoraAtiva(c)
             => /\ \A v \in ValoresVenda :
                      (PostVendas(c, v) \/ PostVendas_003(c, v)) => UNCHANGED tabelas
                /\ \A v \in ValoresMeta, d \in DiasMeta :
                      PostMetas(c, v, d) => UNCHANGED tabelas
                /\ \A m \in ValoresMetaMensal :
                      PostMetaMensal_003(c, m) => UNCHANGED tabelas
                /\ \A id \in IdsAlvo, p \in ValoresMetaPadrao, a \in BOOLEAN :
                      AtualizarVendedora_003(c, id, p, a) => UNCHANGED tabelas
       /\ (variant = "part_000" /\ req.pc = "idle" /\ req'.pc # "idle")
          => VendedoraAtiva(req'.vendedoraId)
       /\ PassoGetMetaHojeDinamica => VendedoraAtiva(resposta'.vendedoraId)]_vars

\* C25: contarDiasUteis and calcularMetaDia given a string that is no date end
\* in an error: neither returns a count or a goal.
C25_InvalidDateFails ==
    cal.op = "dataInvalida" => cal.erro

\* C26: for one quota and one realized amount below it, the target computed
\* for a later date of the month that still has a selling day is not smaller
\* than the target computed for an earlier date.
C26_TargetRisesWithDate ==
    (/\ cal.op = "calcularMetaDiaDatas"
     /\ cal.d1 <= cal.d2
     /\ cal.metaMensal - cal.r > 0
     /\ DiasDeVendaRestantes(cal.d2) > 0)
    => FracLeq(cal.out1, cal.out2)

\* C22: every seller row holds meta_mensal >= 0 and meta_padrao >= 0 (rows of
\* part_003 have no meta_mensal); a request that carries a negative value is
\* rejected.
C22_QuotaNonNegative ==
    \A v \in vendedoras :
        /\ v.meta_padrao >= 0
        /\ variant = "part_000" => v.meta_mensal >= 0

\* C23: every stored sale amount is >= 0.
C23_SaleNonNegative ==
    \A v \in vendas : v.valor >= 0

\* the sales of the sellers other than c are in the table after the step as
\* they are before it
VendasAlheiasIntactas(c) ==
    \A x \in vendas : x.vendedora_id # c => x \in vendas'

\* C30: PUT and DELETE /api/vendas/:id sent by a seller leave every sale of
\* every other seller in the table and unchanged, and a PUT whose :id is the
\* sale of another seller is answered 'Venda não encontrada' (404 by
\* part_000, 400 by part_003).
C30_OwnerOnly ==
    [][\A c \in Callers, id \in IdsVenda :
          /\ \A dado \in BOOLEAN, v \in ValoresEdicao :
                PutVendas(c, id, dado, v) => VendasAlheiasIntactas(c)
          /\ \A v \in ValoresEdicao :
                PutVendas_003(c, id, v) => VendasAlheiasIntactas(c)
          /\ DeleteVendas(c, id) => VendasAlheiasIntactas(c)
          /\ DeleteVendas_003(c, id) => VendasAlheiasIntactas(c)
          /\ (\E x \in vendas : x.id = id /\ x.vendedora_id # c)
             => /\ (variant = "part_000" /\ autenticar(c) # {})
                   => PutVendasStatus(c, id) = 404
                /\ (variant = "part_003" /\ autenticar_003(c))
                   => PutVendasStatus_003(c, id) = 400]_vars

\* C30 witness: seller 2 has edited her sale to 20000 and deleted nothing of
\* seller 1, whose sale of 10000 is in the table
C30_Witness ==
    /\ \E x \in vendas : x.vendedora_id = 2 /\ x.valor = 20000
    /\ \E x \in vendas : x.vendedora_id = 1 /\ x.valor = 10000
    /\ Cardinality(vendas) = 2 /\ vendas_id_seq = 2

\* the month of the start date is over
MesEncerrado == MesDe(hoje) # MesDe(cal.inicio)

\* C27: a seller who starts with quota > 0, an unmet remainder and a selling
\* day left, and sells the target of the day on every day but Sunday, is given
\* the same target on each of those days and has realized the quota when the
\* month is over.
C27_SteadyPace ==
    (/\ cal.op = "ritmo"
     /\ cal.metaMensal > 0
     /\ cal.metaMensal - cal.realizado > 0
     /\ DiasDeVendaRestantes(cal.inicio) > 0)
    => /\ \A i \in 1..Len(cal.alvos) : FracEq(cal.alvos[i], cal.alvos[1])
       /\ MesEncerrado
          => RealizadoAte(Ana.id, UltimoDiaDoMes(cal.inicio)) = cal.metaMensal

====
